---- MODULE Spec2Model ----
(***************************************************************************)
(* Model of the Tor identity rotator (src/rotating_ip.py, TorIpRotator;    *)
(* src/rotating_proxy.py is the same component under the "proxy" naming).  *)
(*                                                                         *)
(* The instance is built by __init__ (validation, two probes, transport    *)
(* mount) and then serves rotate_ip calls.  A rotate_ip call is modelled   *)
(* statement by statement: the for loop head, the controller renewal, the  *)
(* probe through Tor, the acceptance policy and the append.  The network   *)
(* (controller, probe service) is the environment: every outcome it can    *)
(* produce is a nondeterministic choice.                                   *)
(***************************************************************************)
EXTENDS Integers, Sequences, FiniteSets, TLC

\* ---------------------------------------------------------------- bounds
NumAddr == 3          \* distinct addresses the probe service can report
MaxRot == 2           \* largest max_rotations an instance is built with
MaxHistory == 3       \* a client calls only while used_ips is shorter than this
MaxStatusLen == 1     \* longest circuit-status text the controller reports
NumCallers == 2       \* client threads that may call into one instance

Addr == 1..NumAddr
NoAddr == 0           \* Python None for tor_ip / local_ip / new_tor_ip
Callers == 1..NumCallers

\* Environment settings read at class-definition time (os.getenv): a setting
\* is absent (None), empty, or set.
EnvValues == {"None", "", "set"}

\* Characters of a circuit-status text; "\n" is the line separator.
Chars == {"c", "\n"}
StatusTexts == UNION {[1..n -> Chars] : n \in 0..MaxStatusLen}

VARIABLES
    tor_password,     \* _tor_password
    ip_service_url,   \* ip_service_url
    max_rotations,    \* max_rotations
    local_ip,         \* local_ip
    tor_ip,           \* tor_ip
    tor_mount_ip,     \* tor_mount_ip: "empty" ({}) or "socks" (proxy transports)
    tor_data,         \* tor_data: a dict, as a set of <<key, value>> pairs
    used_ips,         \* used_ips
    init_pc,          \* position of __init__
    init_error,       \* exception __init__ ended with, "none" otherwise
    init_net,         \* network calls made by __init__, per capability
    frame,            \* per caller: position and locals of its rotate_ip call
    result,           \* per caller: how its last rotate_ip call ended
    spy,              \* per caller: what its current/last call observed and did
    called,           \* the flags every rotate_ip call so far agreed on
    reported,         \* the circuit-status text the controller reported last
    reply             \* per caller: how its last call of another method ended

vars == <<tor_password, ip_service_url, max_rotations, local_ip, tor_ip,
          tor_mount_ip, tor_data, used_ips, init_pc, init_error, init_net,
          frame, result, spy, called, reported, reply>>

config == <<tor_password, ip_service_url, max_rotations>>
fields == <<local_ip, tor_ip, tor_mount_ip, tor_data, used_ips>>
ctor == <<init_pc, init_error, init_net>>
calls == <<frame, result, spy, called, reported, reply>>

\* ---------------------------------------------------------------- helpers
\* Python truthiness of an environment string: None and "" are falsy.
Falsy(v) == v \in {"None", ""}

\* x in xs for a Python list
InList(x, xs) == \E k \in 1..Len(xs) : xs[k] = x

\* str.splitlines(): lines are cut at each "\n"; a trailing "\n" adds no
\* empty last line, and the empty text has no lines.
RECURSIVE SplitFrom(_, _, _)
SplitFrom(data, k, cur) ==
    IF k > Len(data)
    THEN IF cur = <<>> THEN <<>> ELSE <<cur>>
    ELSE IF data[k] = "\n"
         THEN <<cur>> \o SplitFrom(data, k + 1, <<>>)
         ELSE SplitFrom(data, k + 1, Append(cur, data[k]))

extract_circuit_status(data) == SplitFrom(data, 1, <<>>)

\* fault: d.setdefault(key, value), a key once set keeps its value
DictSet_keep_first(d, key, value) ==
    IF \E kv \in d : kv[1] = key THEN d ELSE d \cup {<<key, value>>}

\* d[key] = value on a dict held as a set of pairs
DictSet(d, key, value) == {kv \in d : kv[1] # key} \cup {<<key, value>>}

IdleFrame == [pc |-> "idle", unique |-> FALSE, prevent_ips_match |-> TRUE,
              attempt |-> 0, new_tor_ip |-> NoAddr]
NoResult == [kind |-> "none", value |-> NoAddr]
NoSpy == [before |-> <<>>, probed |-> <<>>, renewals |-> 0, probes |-> 0,
          controller_failed |-> FALSE, probe_failed |-> FALSE,
          checked |-> <<>>]

\* Exceptions are named by where they come from: "ValueError" (lines 41, 46),
\* "RequestFailed" (the RuntimeError of line 67), "HTTPStatusError" (line 64
\* or 87), "httpx.RequestError" (line 86), "ControllerError" (stem, lines
\* 78-82), "AllExhausted" (the RuntimeError of line 106) and "MaxReached"
\* (the RuntimeError of line 111).
Raised(kind) == [kind |-> kind, value |-> NoAddr]

\* The fields a method could write, as a caller sees them
Fields == <<local_ip, tor_ip, tor_data, used_ips>>

NoReport == [seen |-> FALSE, data |-> <<>>]
NoReply == [op |-> "none", kind |-> "none", value |-> <<>>, before |-> <<>>,
            rotate_ip |-> <<>>]
Reply(op, kind, value) ==
    [op |-> op, kind |-> kind, value |-> value, before |-> Fields,
     rotate_ip |-> <<>>]

\* json.dumps(obj, indent=4) as the sequence of its pieces: a string is its
\* characters between quotes, a list is its items one per line, each dict
\* entry is a key and a list; empty containers are written "[]" and "{}".
JsonStr(str) == <<"\"">> \o str \o <<"\"">>

RECURSIVE JsonItems(_, _)
JsonItems(list, k) ==
    IF k > Len(list) THEN <<>>
    ELSE <<"\n        ">> \o JsonStr(list[k])
         \o (IF k < Len(list) THEN <<",">> ELSE <<>>)
         \o JsonItems(list, k + 1)

JsonList(list) ==
    IF list = <<>> THEN <<"[]">>
    ELSE <<"[">> \o JsonItems(list, 1) \o <<"\n    ", "]">>

RECURSIVE JsonEntries(_)
JsonEntries(d) ==
    IF d = {} THEN <<>>
    ELSE LET kv == CHOOSE e \in d : TRUE
         IN  <<"\n    ", "\"", kv[1], "\"", ": ">> \o JsonList(kv[2])
             \o (IF d \ {kv} # {} THEN <<",">> ELSE <<>>)
             \o JsonEntries(d \ {kv})

JsonDumps(d) ==
    IF d = {} THEN <<"{}">>
    ELSE <<"{">> \o JsonEntries(d) \o <<"\n", "}">>
Returned(ip) == [kind |-> "ok", value |-> ip]

\* ---------------------------------------------------------------- Init
\* The state on entry to __init__ after super().__init__(): pydantic has set
\* every field to its default or to the value passed by the caller.
Init ==
    /\ tor_password \in EnvValues
    /\ ip_service_url \in EnvValues
    /\ max_rotations \in 0..MaxRot
    /\ local_ip = NoAddr
    /\ tor_ip = NoAddr
    /\ tor_mount_ip = "empty"
    /\ tor_data = {}
    /\ used_ips = <<>>
    /\ init_pc = "validate"
    /\ init_error = "none"
    /\ init_net = [direct |-> 0, through_tor |-> 0, mounts |-> "none"]
    /\ frame = [t \in Callers |-> IdleFrame]
    /\ result = [t \in Callers |-> NoResult]
    /\ spy = [t \in Callers |-> NoSpy]
    /\ called = [unique |-> TRUE, prevent_ips_match |-> TRUE]
    /\ reported = NoReport
    /\ reply = [t \in Callers |-> NoReply]

\* ---------------------------------------------------------------- __init__
InitFail(exc) ==
    /\ init_pc' = "failed"
    /\ init_error' = exc

\* fault: only the password is validated
ConfigMissing_password_only == Falsy(tor_password)

\* lines 40-48: both settings must be truthy, password checked first
ConfigMissing == Falsy(tor_password) \/ Falsy(ip_service_url)

InitValidate ==
    /\ init_pc = "validate"
    /\ IF ConfigMissing
       THEN InitFail("ValueError")
       ELSE init_pc' = "check_local_ip" /\ init_error' = init_error
    /\ UNCHANGED <<config, fields, init_net, calls>>

\* line 50: local_ip = __check_local_ip(), a direct httpx.get
InitCheckLocalIp ==
    /\ init_pc = "check_local_ip"
    /\ init_net' = [init_net EXCEPT !.direct = @ + 1]
    /\ \/ \E ip \in Addr :
            /\ local_ip' = ip
            /\ init_pc' = "check_tor_ip"
            /\ init_error' = init_error
       \/ \E exc \in {"httpx.RequestError", "HTTPStatusError"} :
            /\ InitFail(exc)
            /\ local_ip' = local_ip
    /\ UNCHANGED <<config, tor_ip, tor_mount_ip, tor_data, used_ips, calls>>

\* fault: the answer of the second probe is stored in local_ip
InitCheckTorIp_into_local_ip ==
    /\ init_pc = "check_tor_ip"
    /\ init_net' = [init_net EXCEPT !.through_tor = @ + 1,
                                    !.mounts = tor_mount_ip]
    /\ \/ \E ip \in Addr :
            /\ local_ip' = ip
            /\ init_pc' = "mount"
            /\ init_error' = init_error
       \/ \E exc \in {"RequestFailed", "HTTPStatusError"} :
            /\ InitFail(exc)
            /\ local_ip' = local_ip
    /\ UNCHANGED <<config, tor_ip, tor_mount_ip, tor_data, used_ips, calls>>

\* line 51: tor_ip = __check_tor_ip(), through make_request_through_tor,
\* whose client (line 62) is built on tor_mount_ip as it is at that moment
InitCheckTorIp ==
    /\ init_pc = "check_tor_ip"
    /\ init_net' = [init_net EXCEPT !.through_tor = @ + 1,
                                    !.mounts = tor_mount_ip]
    /\ \/ \E ip \in Addr :
            /\ tor_ip' = ip
            /\ init_pc' = "mount"
            /\ init_error' = init_error
       \/ \E exc \in {"RequestFailed", "HTTPStatusError"} :
            /\ InitFail(exc)
            /\ tor_ip' = tor_ip
    /\ UNCHANGED <<config, local_ip, tor_mount_ip, tor_data, used_ips, calls>>

\* lines 52-55: the proxy transports are mounted last
InitMount ==
    /\ init_pc = "mount"
    /\ tor_mount_ip' = "socks"
    /\ init_pc' = "ready"
    /\ UNCHANGED <<config, local_ip, tor_ip, tor_data, used_ips, init_error,
                   init_net, calls>>

\* ---------------------------------------------------------------- rotate_ip
\* A call is over once a result is recorded.
Done(t) == frame[t].pc = "idle" /\ result[t].kind # "none"

\* How a call ends: the frame is left, the result is what the caller sees.
Finish(t, res) ==
    /\ frame' = [frame EXCEPT ![t].pc = "idle"]
    /\ result' = [result EXCEPT ![t] = res]

Goto(t, label) ==
    /\ frame' = [frame EXCEPT ![t].pc = label]
    /\ result' = result

\* fault: off by one, range(self.max_rotations + 1)
LoopContinues_inclusive(attempt, max) == attempt <= max

\* line 98: range(self.max_rotations) yields another iteration
LoopContinues(attempt, max) == attempt < max

\* fault: the flag is read inverted
MatchesLocal_inverted(prevent, ip, local) == ~prevent /\ ip = local

\* fault: the flag is not read
MatchesLocal_whatever_flag(prevent, ip, local) == ip = local

\* line 101: prevent_ips_match and new_tor_ip == self.local_ip
MatchesLocal(prevent, ip, local) == prevent /\ ip = local

\* fault: only the most recent address is compared
AlreadyUsed_last_only(unique, ip, used) ==
    unique /\ Len(used) > 0 /\ used[Len(used)] = ip

\* fault: a full history counts as "used" whatever the address
AlreadyUsed_or_full(unique, ip, used) ==
    unique /\ (InList(ip, used) \/ Len(used) >= max_rotations)

\* line 104: unique and new_tor_ip in self.used_ips
AlreadyUsed(unique, ip, used) == unique /\ InList(ip, used)

\* fault: the history counts as full one element early
Exhausted_early(used, max) == Len(used) + 1 >= max

\* fault: > for >=
Exhausted_strict(used, max) == Len(used) > max

\* line 105: len(self.used_ips) >= self.max_rotations
Exhausted(used, max) == Len(used) >= max

\* line 97: a client calls rotate_ip(unique, prevent_ips_match) on a built
\* instance; the previous call's result is forgotten.
Call(t, unique, prevent) ==
    /\ init_pc = "ready"
    /\ frame[t].pc = "idle"
    /\ Len(used_ips) < MaxHistory
    /\ frame' = [frame EXCEPT ![t] = [pc |-> "for", unique |-> unique,
                                      prevent_ips_match |-> prevent,
                                      attempt |-> 0, new_tor_ip |-> NoAddr]]
    /\ result' = [result EXCEPT ![t] = NoResult]
    /\ spy' = [spy EXCEPT ![t] = [NoSpy EXCEPT !.before = used_ips]]
    /\ called' = [unique |-> called.unique /\ unique,
                  prevent_ips_match |-> called.prevent_ips_match /\ prevent]
    /\ reply' = [reply EXCEPT ![t] = NoReply]
    /\ UNCHANGED <<config, fields, ctor, reported>>

\* lines 98 and 111: the loop head starts the next attempt, or the loop is
\* over and "Max IP rotations reached" is raised.
ForLoop(t) ==
    /\ frame[t].pc = "for"
    /\ IF LoopContinues(frame[t].attempt, max_rotations)
       THEN /\ frame' = [frame EXCEPT ![t].pc = "renew", ![t].attempt = @ + 1]
            /\ result' = result
       ELSE Finish(t, Raised("MaxReached"))
    /\ UNCHANGED <<config, fields, ctor, spy, called, reported, reply>>

\* lines 75-83, reached from line 94: the controller accepts the connection,
\* the password and the NEWNYM signal and reports a circuit status, which is
\* split into lines and stored under "circuit_status".
RenewOk(t, data) ==
    /\ tor_data' = DictSet(tor_data, "circuit_status",
                           extract_circuit_status(data))
    /\ Goto(t, "probe")

\* fault: the controller error is swallowed and the attempt goes on
RenewFails_swallowed(t) ==
    /\ tor_data' = tor_data
    /\ Goto(t, "probe")

\* lines 78-82: from_port, authenticate, signal or get_info raises; nothing
\* catches it, so it leaves rotate_ip with tor_data as it was.
RenewFails(t) ==
    /\ tor_data' = tor_data
    /\ Finish(t, Raised("ControllerError"))

Renew(t) ==
    /\ frame[t].pc = "renew"
    /\ \/ \E data \in StatusTexts :
            /\ RenewOk(t, data)
            /\ spy' = [spy EXCEPT ![t].renewals = @ + 1]
            /\ reported' = [seen |-> TRUE, data |-> data]
       \/ /\ RenewFails(t)
          /\ spy' = [spy EXCEPT ![t].renewals = @ + 1,
                                ![t].controller_failed = TRUE]
          /\ reported' = reported
    /\ UNCHANGED <<config, local_ip, tor_ip, tor_mount_ip, used_ips, ctor,
                   called, reply>>

\* lines 60-65, reached from lines 91 and 95: the service answers 2xx with an
\* address.
ProbeOk(t, ip) ==
    /\ frame' = [frame EXCEPT ![t].pc = "policy", ![t].new_tor_ip = ip]
    /\ result' = result

\* fault: a failed probe is counted as a rejected attempt
ProbeFails_retry(t) == Goto(t, "for")

\* lines 63-67: a transport error is re-raised as RuntimeError; the
\* HTTPStatusError of raise_for_status is no httpx.RequestError and leaves
\* as it is.  Either way rotate_ip is left.
ProbeFails(t) ==
    \E exc \in {"RequestFailed", "HTTPStatusError"} :
        Finish(t, Raised(exc))

Probe(t) ==
    /\ frame[t].pc = "probe"
    /\ \/ \E ip \in Addr :
            /\ ProbeOk(t, ip)
            /\ spy' = [spy EXCEPT ![t].probes = @ + 1,
                                  ![t].probed = Append(@, ip)]
       \/ /\ ProbeFails(t)
          /\ spy' = [spy EXCEPT ![t].probes = @ + 1,
                                ![t].probe_failed = TRUE]
    /\ UNCHANGED <<config, fields, ctor, called, reported, reply>>

\* fault: a repeated address is recorded again before the loop goes on
Policy_records_rejected(t) ==
    /\ frame[t].pc = "policy"
    /\ IF MatchesLocal(frame[t].prevent_ips_match, frame[t].new_tor_ip, local_ip)
       THEN Goto(t, "for") /\ used_ips' = used_ips
       ELSE IF AlreadyUsed(frame[t].unique, frame[t].new_tor_ip, used_ips)
            THEN IF Exhausted(used_ips, max_rotations)
                 THEN Finish(t, Raised("AllExhausted")) /\ used_ips' = used_ips
                 ELSE /\ Goto(t, "for")
                      /\ used_ips' = Append(used_ips, frame[t].new_tor_ip)
            ELSE Goto(t, "append") /\ used_ips' = used_ips
    /\ spy' = [spy EXCEPT ![t].checked = used_ips]
    /\ UNCHANGED <<config, local_ip, tor_ip, tor_mount_ip, tor_data, ctor,
                   called, reported, reply>>

\* fault: the uniqueness test comes before the local_ip test
Policy_unique_first(t) ==
    /\ frame[t].pc = "policy"
    /\ IF AlreadyUsed(frame[t].unique, frame[t].new_tor_ip, used_ips)
       THEN IF Exhausted(used_ips, max_rotations)
            THEN Finish(t, Raised("AllExhausted"))
            ELSE Goto(t, "for")
       ELSE IF MatchesLocal(frame[t].prevent_ips_match, frame[t].new_tor_ip,
                            local_ip)
            THEN Goto(t, "for")
            ELSE Goto(t, "append")
    /\ spy' = [spy EXCEPT ![t].checked = used_ips]
    /\ UNCHANGED <<config, fields, ctor, called, reported, reply>>

\* lines 101-107: the acceptance policy on the probed address; the list it
\* read is noted for the caller
Policy(t) ==
    /\ frame[t].pc = "policy"
    /\ IF MatchesLocal(frame[t].prevent_ips_match, frame[t].new_tor_ip, local_ip)
       THEN Goto(t, "for")
       ELSE IF AlreadyUsed(frame[t].unique, frame[t].new_tor_ip, used_ips)
            THEN IF Exhausted(used_ips, max_rotations)
                 THEN Finish(t, Raised("AllExhausted"))
                 ELSE Goto(t, "for")
            ELSE Goto(t, "append")
    /\ spy' = [spy EXCEPT ![t].checked = used_ips]
    /\ UNCHANGED <<config, fields, ctor, called, reported, reply>>

\* fault: the address is inserted at the front of the list
Accept_prepend(t) ==
    /\ frame[t].pc = "append"
    /\ used_ips' = <<frame[t].new_tor_ip>> \o used_ips
    /\ Finish(t, Returned(frame[t].new_tor_ip))
    /\ UNCHANGED <<config, local_ip, tor_ip, tor_mount_ip, tor_data, ctor, spy,
                   called, reported, reply>>

\* lines 109-110: the address is recorded and returned
Accept(t) ==
    /\ frame[t].pc = "append"
    /\ used_ips' = Append(used_ips, frame[t].new_tor_ip)
    /\ Finish(t, Returned(frame[t].new_tor_ip))
    /\ UNCHANGED <<config, local_ip, tor_ip, tor_mount_ip, tor_data, ctor, spy,
                   called, reported, reply>>

\* ---------------------------------------------------------------- other methods
\* A client that calls another method has dropped what its last rotate_ip
\* call gave it.
Forget(t) ==
    /\ frame' = [frame EXCEPT ![t] = IdleFrame]
    /\ result' = [result EXCEPT ![t] = NoResult]
    /\ spy' = [spy EXCEPT ![t] = NoSpy]

\* lines 69-70: tor_data_dump() returns json.dumps(self.tor_data, indent=4)
tor_data_dump(t) ==
    /\ reply' = [reply EXCEPT ![t] = Reply("tor_data_dump", "ok",
                                           JsonDumps(tor_data))]
    /\ Forget(t)
    /\ UNCHANGED <<config, fields, ctor, called, reported>>

\* a client calls tor_data_dump() on a built instance
TorDataDump(t) ==
    /\ init_pc = "ready"
    /\ frame[t].pc = "idle"
    /\ Len(used_ips) < MaxHistory
    /\ tor_data_dump(t)

\* What a failed request leaves make_request_through_tor with: line 67
\* turns an httpx.RequestError (transport) into RuntimeError; the
\* HTTPStatusError that raise_for_status (line 64) raises on a non-2xx
\* answer is no httpx.RequestError and is not caught.
RequestErrors == {"RequestFailed", "HTTPStatusError"}

\* What the answer of an arbitrary URL reads
Texts == {"text"}

\* lines 60-67: make_request_through_tor(url) called by a client; the text
\* of the answer is returned, no field is written.
make_request_through_tor(t) ==
    /\ \/ \E text \in Texts :
            reply' = [reply EXCEPT ![t] =
                         Reply("make_request_through_tor", "ok", <<text>>)]
       \/ \E exc \in RequestErrors :
            reply' = [reply EXCEPT ![t] =
                         Reply("make_request_through_tor", exc, <<>>)]
    /\ Forget(t)
    /\ UNCHANGED <<config, fields, ctor, called, reported>>

MakeRequest(t) ==
    /\ init_pc = "ready"
    /\ frame[t].pc = "idle"
    /\ Len(used_ips) < MaxHistory
    /\ make_request_through_tor(t)

\* ---------------------------------------------------------------- TorProxy
\* src/rotating_proxy.py, lines 73-81: the body of __renew_tor_circuit is
\* indented deeper than its docstring, so compiling the module raises
\* IndentationError (line 76) and the class TorProxy never exists.
rotating_proxy_compiles == FALSE

\* What the controller and the probe service answered to the attempts of
\* caller t's last rotate_ip call, one record per renewal.
Answers(t) ==
    [k \in 1..spy[t].renewals |->
        IF k <= Len(spy[t].probed)
        THEN [renew |-> "ok", probe |-> "ok", ip |-> spy[t].probed[k]]
        ELSE IF spy[t].controller_failed
             THEN [renew |-> "ControllerError", probe |-> "none", ip |-> NoAddr]
             ELSE [renew |-> "ok", probe |-> result[t].kind, ip |-> NoAddr]]

Outcome(kind, ip, renewals, used) ==
    [kind |-> kind, value |-> <<ip, renewals, used>>]

\* src/rotating_proxy.py, lines 91-111: rotate_proxy on used_proxies = used,
\* after i iterations, with the answers the environment gives.  An attempt
\* the environment has no answer for is reported as "Unanswered".
RECURSIVE rotate_proxy_loop(_, _, _, _, _, _, _)
rotate_proxy_loop(unique, prevent, local, used, max, answers, i) ==
    IF ~(i < max) THEN Outcome("MaxReached", NoAddr, i, used)
    ELSE IF i + 1 > Len(answers) THEN Outcome("Unanswered", NoAddr, i, used)
    ELSE LET a == answers[i + 1]
         IN  IF a.renew # "ok" THEN Outcome(a.renew, NoAddr, i + 1, used)
             ELSE IF a.probe # "ok" THEN Outcome(a.probe, NoAddr, i + 1, used)
             ELSE IF prevent /\ a.ip = local
                  THEN rotate_proxy_loop(unique, prevent, local, used, max,
                                         answers, i + 1)
             ELSE IF unique /\ InList(a.ip, used)
                  THEN IF Len(used) >= max
                       THEN Outcome("AllExhausted", NoAddr, i + 1, used)
                       ELSE rotate_proxy_loop(unique, prevent, local, used,
                                              max, answers, i + 1)
             ELSE Outcome("ok", a.ip, i + 1, Append(used, a.ip))

\* rotate_proxy(unique, prevent_ips_match) as a client of rotating_proxy.py
\* gets it: the import fails before anything else can run.
rotate_proxy(unique, prevent, local, used, max, answers) ==
    IF rotating_proxy_compiles
    THEN rotate_proxy_loop(unique, prevent, local, used, max, answers, 0)
    ELSE Outcome("IndentationError", NoAddr, 0, used)

\* The client repeats its last rotate_ip call on a TorProxy: same settings,
\* same local_ip, used_proxies as used_ips was, same flags, same answers.
\* The reply keeps what rotate_ip had done next to what rotate_proxy did.
RotateProxy(t) ==
    /\ Done(t)
    /\ LET out == rotate_proxy(frame[t].unique, frame[t].prevent_ips_match,
                               local_ip, spy[t].before, max_rotations,
                               Answers(t))
       IN  reply' = [reply EXCEPT ![t] =
                        [Reply("rotate_proxy", out.kind, out.value)
                            EXCEPT !.rotate_ip =
                                Outcome(result[t].kind, result[t].value,
                                        spy[t].renewals, used_ips)]]
    /\ Forget(t)
    /\ UNCHANGED <<config, fields, ctor, called, reported>>

\* ---------------------------------------------------------------- specifications
\* One client thread: rotate_ip calls never overlap.
SeqCallers == {1}

Next ==
    \/ InitValidate
    \/ InitCheckLocalIp
    \/ InitCheckTorIp
    \/ InitMount
    \/ \E t \in SeqCallers, unique \in BOOLEAN, prevent \in BOOLEAN :
          Call(t, unique, prevent)
    \/ \E t \in SeqCallers : ForLoop(t)
    \/ \E t \in SeqCallers : Renew(t)
    \/ \E t \in SeqCallers : Probe(t)
    \/ \E t \in SeqCallers : Policy(t)
    \/ \E t \in SeqCallers : Accept(t)

Spec == Init /\ [][Next]_vars

\* The client also uses the other public methods between its rotate_ip calls.
NextClient ==
    \/ Next
    \/ \E t \in SeqCallers : TorDataDump(t)
    \/ \E t \in SeqCallers : MakeRequest(t)

SpecClient == Init /\ [][NextClient]_vars

\* The client repeats each finished rotate_ip call on a TorProxy.
NextProxy ==
    \/ Next
    \/ \E t \in SeqCallers : RotateProxy(t)

SpecProxy == Init /\ [][NextProxy]_vars

\* Several client threads share the instance without a lock: their
\* rotate_ip(unique=True) calls run statement by statement in any order.
NextOverlap ==
    \/ InitValidate
    \/ InitCheckLocalIp
    \/ InitCheckTorIp
    \/ InitMount
    \/ \E t \in Callers : Call(t, TRUE, TRUE)
    \/ \E t \in Callers : ForLoop(t)
    \/ \E t \in Callers : Renew(t)
    \/ \E t \in Callers : Probe(t)
    \/ \E t \in Callers : Policy(t)
    \/ \E t \in Callers : Accept(t)

SpecOverlap == Init /\ [][NextOverlap]_vars

TypeOK ==
    /\ tor_password \in EnvValues /\ ip_service_url \in EnvValues
    /\ max_rotations \in 0..MaxRot
    /\ local_ip \in Addr \cup {NoAddr} /\ tor_ip \in Addr \cup {NoAddr}
    /\ tor_mount_ip \in {"empty", "socks"}
    \* each caller that started below MaxHistory may still append once
    /\ Len(used_ips) < MaxHistory + NumCallers
    /\ \A t \in Callers : frame[t].attempt \in 0..MaxRot

\* ---------------------------------------------------------------- properties
\* Vocabulary of the properties.
ExhaustedErrors == {"AllExhausted", "MaxReached"}
InfraErrors == {"ControllerError", "RequestFailed", "HTTPStatusError"}
Last(xs) == xs[Len(xs)]

\* C1: a rotate_ip call that returns leaves used_ips equal to the list it
\* found with the returned address appended once at the end.
C1_ReturnedAppendedOnce ==
    \A t \in Callers :
        result[t].kind = "ok" =>
            /\ Done(t)
            /\ used_ips = Append(spy[t].before, result[t].value)
            /\ Last(used_ips) = result[t].value

\* a call returned an address that the two-element list it found already held
C1_Witness ==
    /\ result[1].kind = "ok"
    /\ Len(spy[1].before) = 2
    /\ spy[1].before[1] = result[1].value
    /\ spy[1].before[2] # result[1].value

\* C2: once a rotate_ip call has succeeded (used_ips is not empty), tor_ip
\* is the last element of used_ips.
C2_TorIpIsHistoryTail ==
    Len(used_ips) > 0 => tor_ip = Last(used_ips)

\* C3: while every call so far was made with prevent_ips_match=True, no
\* returned address and no element of used_ips equals local_ip.
C3_NeverLocalIp ==
    called.prevent_ips_match =>
        /\ \A k \in 1..Len(used_ips) : used_ips[k] # local_ip
        /\ \A t \in Callers : result[t].kind = "ok" => result[t].value # local_ip

\* a call with prevent_ips_match=True was shown local_ip, rejected it and
\* returned a later address
C3_Witness ==
    /\ called.prevent_ips_match
    /\ result[1].kind = "ok"
    /\ Len(spy[1].probed) = 2
    /\ spy[1].probed[1] = local_ip

\* C4: a call made with unique=True appends no address that used_ips already
\* holds, and while every call so far was made with unique=True, used_ips
\* has no two equal elements.
C4_UniqueNeverRepeats ==
    /\ \A t \in Callers :
          (result[t].kind = "ok" /\ frame[t].unique) =>
              ~ \E k \in 1..Len(spy[t].before) :
                    spy[t].before[k] = result[t].value
    /\ called.unique =>
          \A j, k \in 1..Len(used_ips) :
              j # k => used_ips[j] # used_ips[k]

\* a unique call was shown the oldest of two used addresses, rejected it and
\* returned a third one
C4_Witness ==
    /\ called.unique
    /\ result[1].kind = "ok"
    /\ Len(spy[1].before) = 2
    /\ Len(spy[1].probed) = 2
    /\ spy[1].probed[1] = spy[1].before[1]
    /\ Len(used_ips) = 3

\* The calls C5 is about: made with unique=True on a list at least
\* max_rotations long, and over without a controller or probe failure.
FullHistoryCall(t) ==
    /\ Done(t)
    /\ frame[t].unique
    /\ Len(spy[t].before) >= max_rotations
    /\ result[t].kind \notin InfraErrors

\* C5 as stated: once used_ips is max_rotations long, every further unique
\* call fails with the exhausted error and accepts nothing.
C5_FullHistoryAlwaysFails ==
    \A t \in Callers :
        FullHistoryCall(t) =>
            /\ result[t].kind \in ExhaustedErrors
            /\ used_ips = spy[t].before

\* C5 amended: such a call fails with the exhausted error and accepts
\* nothing when every probed address is in used_ips or is rejected as
\* local_ip; an address it accepts is never one used_ips already holds, and
\* a probed address that is neither is accepted.
C5_FullHistoryAcceptsOnlyNew ==
    \A t \in Callers :
        FullHistoryCall(t) =>
            LET before == spy[t].before
                stale(ip) ==
                    \/ \E k \in 1..Len(before) : before[k] = ip
                    \/ frame[t].prevent_ips_match /\ ip = local_ip
            IN  IF \A k \in 1..Len(spy[t].probed) : stale(spy[t].probed[k])
                THEN /\ result[t].kind \in ExhaustedErrors
                     /\ used_ips = before
                ELSE /\ result[t].kind = "ok"
                     /\ ~ stale(result[t].value)
                     /\ result[t].value = Last(spy[t].probed)
                     /\ used_ips = Append(before, result[t].value)

\* a unique call on a list exactly max_rotations long was shown a used
\* address on a later attempt and failed
C5_Witness ==
    /\ FullHistoryCall(1)
    /\ max_rotations > 0
    /\ Len(spy[1].before) = max_rotations
    /\ Len(spy[1].probed) = 2
    /\ result[1].kind = "AllExhausted"

\* C6: no call makes more than max_rotations renewal attempts (controller
\* renewals, and probes after them).
C6_AtMostMaxRenewals ==
    \A t \in Callers :
        /\ spy[t].renewals <= max_rotations
        /\ spy[t].probes <= spy[t].renewals

\* a call used its whole budget of two attempts
C6_Witness ==
    /\ max_rotations = 2
    /\ spy[1].renewals = 2
    /\ spy[1].probes = 2
    /\ Done(1)

\* C7: a call all of whose attempts probed an address the policy rejects
\* (local_ip under prevent_ips_match, or a used address under unique while
\* used_ips is shorter than max_rotations) fails with the exhausted error
\* after exactly max_rotations renewals.
C7_AllRejectedFailsAfterMax ==
    \A t \in Callers :
        ( /\ Done(t)
          /\ result[t].kind \notin InfraErrors
          /\ \A k \in 1..Len(spy[t].probed) :
                \/ frame[t].prevent_ips_match /\ spy[t].probed[k] = local_ip
                \/ /\ frame[t].unique
                   /\ \E j \in 1..Len(spy[t].before) :
                          spy[t].before[j] = spy[t].probed[k]
                   /\ Len(spy[t].before) < max_rotations )
        => /\ result[t].kind \in ExhaustedErrors
           /\ spy[t].renewals = max_rotations
           /\ Len(spy[t].probed) = max_rotations
           /\ used_ips = spy[t].before

\* max_rotations=2, used_ips=[A], unique=True, probes [A, A]: the call fails
C7_Witness ==
    /\ max_rotations = 2
    /\ Len(used_ips) = 1
    /\ frame[1].unique
    /\ spy[1].probed = <<used_ips[1], used_ips[1]>>
    /\ used_ips[1] # local_ip
    /\ result[1].kind = "MaxReached"

\* C8: when the controller renewal of an attempt fails, the call is over
\* with that error: no probe for the attempt, no further attempt, used_ips
\* as the call found it.
C8_ControllerFailureEndsCall ==
    \A t \in Callers :
        spy[t].controller_failed =>
            /\ Done(t)
            /\ result[t].kind = "ControllerError"
            /\ spy[t].renewals = frame[t].attempt
            /\ spy[t].probes = spy[t].renewals - 1
            /\ Len(spy[t].probed) = spy[t].probes
            /\ used_ips = spy[t].before

\* the controller failed on the second attempt of a call
C8_Witness ==
    /\ spy[1].controller_failed
    /\ spy[1].renewals = 2
    /\ max_rotations = 2
    /\ Len(spy[1].before) > 0

\* C9: when the probe of an attempt fails, the call is over with an error:
\* the attempt is not counted as a rejected address, the remaining attempts
\* are not used, used_ips is as the call found it.
C9_ProbeFailureEndsCall ==
    \A t \in Callers :
        spy[t].probe_failed =>
            /\ Done(t)
            /\ result[t].kind \in {"RequestFailed", "HTTPStatusError"}
            /\ spy[t].renewals = frame[t].attempt
            /\ spy[t].probes = spy[t].renewals
            /\ Len(spy[t].probed) = spy[t].probes - 1
            /\ used_ips = spy[t].before

\* the probe failed on the first of two attempts of a call
C9_Witness ==
    /\ spy[1].probe_failed
    /\ spy[1].renewals = 1
    /\ max_rotations = 2
    /\ Len(spy[1].before) > 0

\* C10: with the password or the service URL empty or absent, __init__ ends
\* in ValueError, and no direct probe, no probe through Tor and no
\* controller call is ever made.
C10_ConfigErrorBeforeNetwork ==
    (tor_password \in {"None", ""} \/ ip_service_url \in {"None", ""}) =>
        /\ init_pc \in {"validate", "failed"}
        /\ init_pc = "failed" => init_error = "ValueError"
        /\ init_net.direct = 0 /\ init_net.through_tor = 0
        /\ \A t \in Callers : spy[t].renewals = 0 /\ spy[t].probes = 0

\* __init__ failed on the second check: password set, service URL empty
C10_Witness ==
    /\ tor_password = "set"
    /\ ip_service_url = ""
    /\ init_pc = "failed"
    /\ init_error = "ValueError"

\* C11: a successful construction has made exactly two probes, the direct
\* one and then the one through make_request_through_tor, and the second
\* one went out on the mounted proxy transports.
C11_BaselineProbedThroughTor ==
    init_pc = "ready" =>
        /\ init_net.direct = 1
        /\ init_net.through_tor = 1
        /\ init_net.mounts = "socks"

\* C12: tor_data_dump returns the dump of the status the controller
\* reported last (of nothing before the first report), whether or not the
\* address of that attempt was accepted, and writes no field.
C12_DumpShowsLatestStatus ==
    \A t \in Callers :
        reply[t].op = "tor_data_dump" =>
            /\ reply[t].kind = "ok"
            /\ reply[t].value =
                  IF reported.seen
                  THEN JsonDumps({<<"circuit_status",
                                    extract_circuit_status(reported.data)>>})
                  ELSE <<"{}">>
            /\ Fields = reply[t].before

\* after rotations on which the controller reported, last the one-line
\* status "c", the dump shows that one line
C12_Witness ==
    /\ reply[1].op = "tor_data_dump"
    /\ Len(used_ips) = 2
    /\ reported.seen /\ reported.data = <<"c">>
    /\ reply[1].value = <<"{", "\n    ", "\"", "circuit_status", "\"", ": ",
                          "[", "\n        ", "\"", "c", "\"", "\n    ", "]",
                          "\n", "}">>

\* C13: every failure of make_request_through_tor reaches the caller as the
\* RuntimeError of line 67, and the call writes no field.
C13_RequestFailuresWrapped ==
    \A t \in Callers :
        (reply[t].op = "make_request_through_tor" /\ reply[t].kind # "ok") =>
            /\ reply[t].kind = "RequestFailed"
            /\ Fields = reply[t].before

\* Some client has called a method of the instance.
Used == \E t \in Callers :
            frame[t].pc # "idle" \/ result[t].kind # "none" \/ reply[t].op # "none"

\* C14: local_ip is assigned once, by __init__ from None, a client call
\* finds it assigned, and no later step changes it.
C14_LocalIpSetOnce ==
    /\ [](Used => (init_pc = "ready" /\ local_ip \in Addr))
    /\ [][local_ip' # local_ip =>
             (init_pc = "check_local_ip" /\ local_ip = NoAddr /\ ~Used)]_vars

\* a call has failed on a list that holds local_ip itself, and a call
\* before it succeeded: local_ip is still set
C14_Witness ==
    /\ Done(1)
    /\ result[1].kind = "AllExhausted"
    /\ local_ip \in Addr
    /\ \E k \in 1..Len(used_ips) : used_ips[k] = local_ip

\* The k-th address a call probed has been through the policy.
Judged(t, k) ==
    \/ k < Len(spy[t].probed)
    \/ k = Len(spy[t].probed) /\ frame[t].pc # "policy"

\* C15: when the k-th probed address of a call is the first one the policy
\* passes, and no earlier one met the immediate exhausted error, the call
\* returns that address after exactly k renewals.
C15_FirstPassingAddressReturned ==
    \A t \in Callers :
        Done(t) =>
            LET before == spy[t].before
                probed == spy[t].probed
                local(ip) == frame[t].prevent_ips_match /\ ip = local_ip
                used(ip) ==
                    frame[t].unique /\ \E j \in 1..Len(before) : before[j] = ip
                passes(ip) == ~local(ip) /\ ~used(ip)
                immediate(ip) ==
                    ~local(ip) /\ used(ip) /\ Len(before) >= max_rotations
            IN  \A k \in 1..Len(probed) :
                    ( /\ passes(probed[k])
                      /\ \A j \in 1..(k - 1) :
                            ~passes(probed[j]) /\ ~immediate(probed[j]) )
                    => /\ result[t] = [kind |-> "ok", value |-> probed[k]]
                       /\ spy[t].renewals = k
                       /\ Len(probed) = k
                       /\ used_ips = Append(before, probed[k])

\* probes [local_ip, X] with prevent_ips_match=True: X is returned after
\* all of the two attempts
C15_Witness ==
    /\ Done(1)
    /\ frame[1].prevent_ips_match
    /\ max_rotations = 2
    /\ Len(spy[1].probed) = 2
    /\ spy[1].probed[1] = local_ip
    /\ result[1].kind = "ok"
    /\ spy[1].renewals = 2

\* C16: in a unique call on a list at least max_rotations long, an attempt
\* whose address is in the list and is not rejected as local_ip ends the
\* call at once with the exhausted error of line 106, the list unchanged.
C16_RepeatOnFullHistoryFailsAtOnce ==
    \A t \in Callers :
        \A k \in 1..Len(spy[t].probed) :
            ( /\ Judged(t, k)
              /\ frame[t].unique
              /\ ~(frame[t].prevent_ips_match /\ spy[t].probed[k] = local_ip)
              /\ \E j \in 1..Len(spy[t].before) :
                    spy[t].before[j] = spy[t].probed[k]
              /\ Len(spy[t].before) >= max_rotations )
            => /\ Done(t)
               /\ result[t].kind = "AllExhausted"
               /\ spy[t].renewals = k
               /\ spy[t].probes = k
               /\ Len(spy[t].probed) = k
               /\ used_ips = spy[t].before

\* the first of two attempts probed an address of a list exactly
\* max_rotations long: the call failed with one attempt left
C16_Witness ==
    /\ Done(1)
    /\ result[1].kind = "AllExhausted"
    /\ max_rotations = 2
    /\ Len(spy[1].before) = 2
    /\ spy[1].renewals = 1

\* An address as the policy sees it when it is about to be appended.
Acceptable(t) ==
    /\ ~(frame[t].prevent_ips_match /\ frame[t].new_tor_ip = local_ip)
    /\ ~(frame[t].unique /\ \E j \in 1..Len(used_ips) :
                                 used_ips[j] = frame[t].new_tor_ip)

\* C17: used_ips is empty until a client calls, a call that ends in an
\* error leaves it as it found it, and the only step that changes it
\* appends the address that a call has just passed and returns.
C17_HistoryAppendOnly ==
    /\ [](~Used => used_ips = <<>>)
    /\ [](\A t \in Callers :
             (Done(t) /\ result[t].kind # "ok") => used_ips = spy[t].before)
    /\ [][used_ips' # used_ips =>
             \E t \in Callers :
                 /\ frame[t].pc = "append"
                 /\ Acceptable(t)
                 /\ used_ips' = Append(used_ips, frame[t].new_tor_ip)
                 /\ result'[t] = [kind |-> "ok", value |-> frame[t].new_tor_ip]]_vars

\* a unique call on a non-empty list used both attempts on rejected
\* addresses and failed
C17_Witness ==
    /\ Done(1)
    /\ result[1].kind = "MaxReached"
    /\ Len(spy[1].probed) = 2
    /\ used_ips = spy[1].before
    /\ Len(used_ips) = 1
    /\ spy[1].probed[2] = used_ips[1]

\* C19: with prevent_ips_match=True an attempt that probed local_ip makes
\* the loop go on (to the next attempt, or to the end of the loop and the
\* error of line 111); it never ends in the error of line 106 nor in a
\* return, whatever unique and used_ips are.
C19_LocalIpCheckedFirst ==
    \A t \in Callers :
        \A k \in 1..Len(spy[t].probed) :
            ( /\ Judged(t, k)
              /\ frame[t].prevent_ips_match
              /\ spy[t].probed[k] = local_ip )
            => \/ k < Len(spy[t].probed)
               \/ frame[t].pc = "for"
               \/ frame[t].attempt > k
               \/ /\ Done(t)
                  /\ result[t].kind = "MaxReached"
                  /\ k = max_rotations

\* a unique call on a full list that holds local_ip probed local_ip on its
\* last attempt: the loop ended with the error of line 111
C19_Witness ==
    /\ Done(1)
    /\ frame[1].unique /\ frame[1].prevent_ips_match
    /\ max_rotations = 2
    /\ Len(spy[1].before) >= max_rotations
    /\ \E j \in 1..Len(spy[1].before) : spy[1].before[j] = local_ip
    /\ spy[1].probed = <<local_ip, local_ip>>
    /\ result[1].kind = "MaxReached"

\* C18: repeated on a TorProxy in the same state, with the same flags and
\* the same answers of controller and probe service, a rotate_ip call has
\* the same outcome, the same number of renewals and the same resulting list.
C18_ProxyBehavesAsIp ==
    \A t \in Callers :
        reply[t].op = "rotate_proxy" =>
            /\ reply[t].kind = reply[t].rotate_ip.kind
            /\ reply[t].value = reply[t].rotate_ip.value

\* C20: when rotate_ip(unique=True) calls overlap, used_ips can come to
\* hold an address twice (the witness), and a unique call appends an
\* address the list already holds only when the list has changed between
\* its membership test and its append.
C20_DuplicateOnlyByInterleaving ==
    [][\A t \in Callers :
          ( /\ frame[t].pc = "append"
            /\ frame'[t].pc = "idle"
            /\ frame[t].unique
            /\ \E j \in 1..Len(used_ips) : used_ips[j] = frame[t].new_tor_ip )
          => /\ spy[t].checked # used_ips
             /\ ~ \E j \in 1..Len(spy[t].checked) :
                      spy[t].checked[j] = frame[t].new_tor_ip]_vars

\* every call so far was made with unique=True, two of them overlapped, and
\* used_ips holds the same address twice
C20_Witness ==
    /\ called.unique
    /\ \E j, k \in 1..Len(used_ips) : j # k /\ used_ips[j] = used_ips[k]
    /\ result[1].kind = "ok" /\ result[2].kind = "ok"
    /\ result[1].value = result[2].value

====
